---- MODULE Spec2Model ----
(***************************************************************************)
(* Model of the two RewindOS scripts:                                      *)
(*   src/backlash/rewindos_reddit_no_backlash_tracker.py  (Pipeline A)     *)
(*   src/decay/rewindos_google_trends_decay.py            (Pipeline B)     *)
(*                                                                         *)
(* Pipeline A is sequential: main -> fetch_posts_for_query -> request_json.*)
(* request_json is an operator over the responses the endpoint gives to    *)
(* its successive attempts; one loop iteration of fetch_posts_for_query    *)
(* and each stage of main are actions.  Times are counted in ticks of      *)
(* 1/TicksPerSecond second, so that created_utc (a float) and the window   *)
(* bounds (nanosecond timestamps) can fall between whole seconds.          *)
(***************************************************************************)
EXTENDS Integers, Sequences, FiniteSets, TLC

VARIABLES
    pc,             \* position of main (or of the calling harness)
    errors,         \* _errors: the in-memory diagnostics list
    net,            \* trace of requests.get and time.sleep calls
    log_file,       \* lines appended to LOG_FILE
    raw_files,      \* raw-body files written under OUT_DIR
    served,         \* the endpoint's answers to the last request_json call
    ret,            \* value returned by the last request_json call
    query,          \* fetch_posts_for_query: query
    subreddit,      \* fetch_posts_for_query: subreddit
    start_ts,       \* window start (ticks)
    end_ts,         \* window end (ticks)
    max_pages,      \* page ceiling of the running fetch_posts_for_query
    posts,          \* fetch_posts_for_query: posts
    after,          \* fetch_posts_for_query: after
    pages,          \* fetch_posts_for_query: pages
    children,       \* fetch_posts_for_query: children of the last page
    fpc,            \* position of the running fetch_posts_for_query
    fetches,        \* number of request_json calls of the running fetch
    budget,         \* items and failures the endpoint may still produce
    qi,             \* main: index of the (query, scope) pair being run
    all_posts,      \* main: all_posts
    query_summary,  \* main: query_summary
    df,             \* main: df after sort_values / drop_duplicates
    weekly,         \* main: weekly
    summary_csv,    \* rows of QUERY_SUMMARY_CSV, <<>> while not written
    errors_csv,     \* rows of ERRORS_CSV, <<>> while not written
    series,         \* Pipeline B: the (date, value) rows of one term
    half_life       \* Pipeline B: result of compute_half_life

vars == <<pc, errors, net, log_file, raw_files, served, ret, query, subreddit,
          start_ts, end_ts,
          max_pages, posts, after, pages, children, fpc, fetches, budget, qi,
          all_posts, query_summary, df, weekly, summary_csv, errors_csv,
          series, half_life>>

(***************************************************************************)
(* Program constants                                                       *)
(***************************************************************************)
RETRIES == 5

BACKOFF_BASE == 2

RetryableStatus == {429, 500, 502, 503, 504}

\* Python's None, and the falsy cursor values
None == "None"

(***************************************************************************)
(* Bounds of the model                                                     *)
(***************************************************************************)
\* items served plus failed requests the endpoint produces in one run of
\* fetch_posts_for_query or of main
MaxEndpointEvents == 2

\* largest page ceiling a direct call of fetch_posts_for_query is given
MaxPagesBound == 2

\* most records in all_posts when the aggregation is run on its own
MaxPosts == 3

\* most points of a trend series
MaxSeriesLen == 5

(***************************************************************************)
(* Values                                                                  *)
(***************************************************************************)
RECURSIVE Pow(_, _)
Pow(b, e) == IF e = 0 THEN 1 ELSE b * Pow(b, e - 1)

SeqsUpTo(S, n) == UNION {[1..k -> S] : k \in 0..n}

\* A parsed JSON document, as far as fetch_posts_for_query looks at it:
\*   "None"         null (r.json() returns None)
\*   "no_data"      an object without a "data" key
\*   "data_not_obj" an object whose "data" is not an object
\*   "listing"      {"data": {"children": [...], "after": ...}}
Doc(shape, ch, aft) == [shape |-> shape, children |-> ch, after |-> aft]

NoneDoc == Doc("None", <<>>, None)

NoDataDoc == Doc("no_data", <<>>, None)

DataNotObjDoc == Doc("data_not_obj", <<>>, None)

Listing(ch, aft) == Doc("listing", ch, aft)

\* A response body: text that parses to doc, or text that does not parse
JsonBody(doc) == [valid |-> TRUE, doc |-> doc]

Garbage == [valid |-> FALSE, doc |-> NoneDoc]

\* What one requests.get call does: raise, or return a response
Exc == [kind |-> "exception", status |-> 0, body |-> Garbage]

Http(status, body) == [kind |-> "http", status |-> status, body |-> body]

\* The endpoint answers attempt k with responses[k], and keeps giving its
\* last answer afterwards
ResponseAt(responses, attempt) ==
    IF attempt <= Len(responses) THEN responses[attempt]
    ELSE responses[Len(responses)]

(***************************************************************************)
(* record_error, log, time.sleep, file writes: effects on the I/O state    *)
(*   io = [errors, net, log, files]                                        *)
(***************************************************************************)
ErrorRow(stage, status, raw) ==
    [stage |-> stage, status |-> status, raw_saved_as |-> raw]

record_error(io, stage, status, raw) ==
    [io EXCEPT !.errors = Append(@, ErrorRow(stage, status, raw))]

log(io, msg, status) ==
    [io EXCEPT !.log = Append(@, [msg |-> msg, status |-> status])]

requests_get(io, url) ==
    [io EXCEPT !.net = Append(@, [op |-> "GET", secs |-> 0, url |-> url])]

NoUrl == [q |-> "", sr |-> "", after |-> None]

time_sleep(io, secs) ==
    [io EXCEPT !.net = Append(@, [op |-> "sleep", secs |-> secs, url |-> NoUrl])]

\* safe_filename: the name is the prefix and a hash of the content
safe_filename(prefix, body) == [prefix |-> prefix, content |-> body]

write_raw(io, prefix, body) ==
    [io EXCEPT !.files = @ \cup {safe_filename(prefix, body)}]

(***************************************************************************)
(* request_json                                                            *)
(***************************************************************************)
\* faulty variant: every non-200 status is retried
IsRetryableAnyError(status) == status # 200

IsRetryable(status) == status \in RetryableStatus

\* faulty variant: the exponent is the attempt number
BackoffSleepOffByOne(attempt) == Pow(BACKOFF_BASE, attempt)

BackoffSleep(attempt) == Pow(BACKOFF_BASE, attempt - 1)

\* r.json(): the parsed document, or an exception
JsonParses(body) == body.valid

r_json(body) == body.doc

NoFile == [prefix |-> "", content |-> Garbage]

Returned(value, io, attempts) ==
    [ret |-> value, io |-> io, attempts |-> attempts]

\* faulty variant: the loop runs out without the final diagnostic
AllRetriesFailedSilent(io) == Returned(NoneDoc, io, RETRIES)

\* The exit taken once the for loop has run out of attempts
AllRetriesFailed(io) ==
    Returned(NoneDoc, record_error(io, "request_failed_all_retries", 0, NoFile),
             RETRIES)

RECURSIVE Attempt(_, _, _, _)
Attempt(attempt, url, responses, io0) ==
    IF attempt > RETRIES THEN AllRetriesFailed(io0)
    ELSE
      LET r   == ResponseAt(responses, attempt)
          io1 == requests_get(io0, url)
      IN
      IF r.kind = "exception" THEN
          Attempt(attempt + 1, url, responses,
                  time_sleep(record_error(io1, "request_exception", 0, NoFile),
                             BackoffSleep(attempt)))
      ELSE
        LET io2 == log(io1, "GET", r.status) IN
        IF IsRetryable(r.status) THEN
            Attempt(attempt + 1, url, responses,
                    time_sleep(
                      log(record_error(io2, "http_retryable", r.status, NoFile),
                          "Retryable", r.status),
                      BackoffSleep(attempt)))
        ELSE IF r.status # 200 THEN
            LET raw == safe_filename("reddit_raw_http", r.body) IN
            Returned(NoneDoc,
                     record_error(write_raw(io2, "reddit_raw_http", r.body),
                                  "http_non_200", r.status, raw),
                     attempt)
        ELSE IF JsonParses(r.body) THEN
            Returned(r_json(r.body), io2, attempt)
        ELSE
            LET raw == safe_filename("reddit_raw_parsefail", r.body) IN
            Returned(NoneDoc,
                     record_error(
                       write_raw(io2, "reddit_raw_parsefail", r.body),
                       "json_parse_failed", 0, raw),
                     attempt)

request_json(url, responses, io) == Attempt(1, url, responses, io)

IoNow == [errors |-> errors, net |-> net, log |-> log_file, files |-> raw_files]

(***************************************************************************)
(* Time: ticks, seconds and calendar weeks                                 *)
(***************************************************************************)
TicksPerSecond == 2

SecondsPerDay == 86400

WeekSeconds == 7 * SecondsPerDay

\* 1970-01-05 00:00:00 UTC, the first Monday after the epoch
FirstMonday == 4 * SecondsPerDay

\* int(created_utc): truncation to whole seconds (times are not negative)
IntSeconds(created_utc) == created_utc \div TicksPerSecond

\* pd.Timestamp(seconds, unit="s") on the tick scale of start_ts and end_ts
TimestampOf(seconds) == seconds * TicksPerSecond

within_range(created_utc, start, end) ==
    LET t == TimestampOf(IntSeconds(created_utc)) IN (t >= start) /\ (t <= end)

(***************************************************************************)
(* The endpoint                                                            *)
(***************************************************************************)
\* Sunday 1970-01-04 23:59:59, the half second after it, Monday 00:00:00
CreatedTimes ==
    {(FirstMonday - 1) * TicksPerSecond + k : k \in 0..TicksPerSecond}

IDs == {None, "X"}

Post(id, created_utc) == [kind |-> "post", id |-> id, created_utc |-> created_utc]

\* a child whose data has no created_utc
NoCreated == [kind |-> "no_created", id |-> None, created_utc |-> 0]

\* a child that is no object: child.get raises
Malformed == [kind |-> "malformed", id |-> None, created_utc |-> 0]

Items == {Post(id, t) : id \in IDs, t \in CreatedTimes} \cup {NoCreated, Malformed}

Cursors == {None, "t3_next"}

Docs(k) ==
    {NoneDoc, NoDataDoc, DataNotObjDoc}
    \cup {Listing(ch, aft) : ch \in SeqsUpTo(Items, k), aft \in Cursors}

Transient == {Exc} \cup {Http(s, Garbage) : s \in RetryableStatus}

Terminal == {Http(404, Garbage), Http(200, Garbage)}

\* What the endpoint may answer to one request_json call when it may still
\* produce k items and failures: a document; or one failure, which is final
\* or lasts for every attempt of the call; or one transient failure and then
\* a document.
EndpointAnswers(k) ==
    {<<Http(200, JsonBody(d))>> : d \in Docs(k)}
    \cup (IF k = 0 THEN {}
          ELSE {<<x>> : x \in Transient \cup Terminal}
               \cup {<<x, Http(200, JsonBody(d))>> :
                       x \in Transient, d \in Docs(k - 1)})

Failed(r) == r.kind = "exception" \/ r.status # 200 \/ ~r.body.valid

Cost(responses) ==
    Cardinality({i \in 1..Len(responses) : Failed(responses[i])})
    + Len(responses[Len(responses)].body.doc.children)

(***************************************************************************)
(* fetch_posts_for_query                                                   *)
(***************************************************************************)
reddit_search_url(q, sr, aft) == [q |-> q, sr |-> sr, after |-> aft]

Truthy(cursor) == cursor \notin {None, ""}

\* not (not data or "data" not in data)
HasData(data) == data.shape \in {"data_not_obj", "listing"}

PostRecord(d, q, sr) ==
    [id |-> d.id, created_utc |-> d.created_utc,
     created_dt |-> IntSeconds(d.created_utc),
     query |-> q, scope_subreddit |-> IF sr = None THEN "" ELSE sr]

\* The for loop over children: [posts, io] after it
RECURSIVE Extract(_, _, _, _, _, _, _)
Extract(ch, q, sr, start, end, ps, io) ==
    IF ch = <<>> THEN [posts |-> ps, io |-> io]
    ELSE
      LET child == Head(ch) IN
      IF child.kind = "malformed" THEN
          Extract(Tail(ch), q, sr, start, end, ps,
                  record_error(io, "parse_child_failed", 0, NoFile))
      ELSE IF child.kind = "no_created" THEN
          Extract(Tail(ch), q, sr, start, end, ps, io)
      ELSE IF ~within_range(child.created_utc, start, end) THEN
          Extract(Tail(ch), q, sr, start, end, ps, io)
      ELSE
          Extract(Tail(ch), q, sr, start, end,
                  Append(ps, PostRecord(child, q, sr)), io)

\* faulty variant: one page more than the ceiling
UnderCeilingInclusive(n, ceiling) == n <= ceiling

\* "while pages < max_pages"
UnderCeiling(n, ceiling) == n < ceiling

\* faulty variant: an empty page is not noticed
EmptyPageIgnored(ch) == FALSE

\* "if not children: break"
EmptyPage(ch) == ch = <<>>

\* "if not after: break"
NoCursor(cursor) == ~Truthy(cursor)

SetIo(io) ==
    /\ errors' = io.errors
    /\ net' = io.net
    /\ log_file' = io.log
    /\ raw_files' = io.files

\* One iteration of the while loop
FetchPage ==
    /\ fpc = "loop"
    /\ UnderCeiling(pages, max_pages)
    /\ \E responses \in EndpointAnswers(budget) :
         LET url  == reddit_search_url(query, subreddit, after)
             res  == request_json(url, responses, IoNow)
             data == res.ret
         IN
         /\ served' = responses
         /\ ret' = data
         /\ fetches' = fetches + 1
         /\ budget' = budget - Cost(responses)
         /\ IF ~HasData(data) THEN
                /\ fpc' = "return"
                /\ SetIo(res.io)
                /\ UNCHANGED <<posts, after, pages, children>>
            ELSE IF data.shape = "data_not_obj" THEN
                \* data["data"].get raises AttributeError or TypeError
                /\ fpc' = "raised"
                /\ SetIo(res.io)
                /\ UNCHANGED <<posts, after, pages, children>>
            ELSE
                /\ children' = data.children
                /\ after' = data.after
                /\ pages' = pages + 1
                /\ IF EmptyPage(data.children) THEN
                       /\ fpc' = "return"
                       /\ SetIo(res.io)
                       /\ posts' = posts
                   ELSE
                     LET ex == Extract(data.children, query, subreddit,
                                       start_ts, end_ts, posts, res.io)
                     IN
                     /\ posts' = ex.posts
                     /\ IF NoCursor(data.after) THEN
                            /\ fpc' = "return"
                            /\ SetIo(ex.io)
                        ELSE
                            /\ fpc' = "loop"
                            /\ SetIo(time_sleep(ex.io, 1))
    /\ UNCHANGED <<pc, query, subreddit, start_ts, end_ts, max_pages, qi,
                   all_posts, query_summary, df, weekly, summary_csv,
                   errors_csv, series, half_life>>

\* The while condition fails: fall through to "return posts"
FetchCeiling ==
    /\ fpc = "loop"
    /\ ~UnderCeiling(pages, max_pages)
    /\ fpc' = "return"
    /\ UNCHANGED <<pc, errors, net, log_file, raw_files, served, ret, query,
                   subreddit, start_ts, end_ts, max_pages, posts, after,
                   pages, children, fetches, budget, qi, all_posts,
                   query_summary, df, weekly, summary_csv, errors_csv,
                   series, half_life>>

(***************************************************************************)
(* Specification SpecReq: one call of request_json, any answers            *)
(***************************************************************************)
ReqBodies == {Garbage, JsonBody(NoneDoc), JsonBody(Listing(<<>>, None))}

ReqResponses ==
    {Exc} \cup {Http(s, Garbage) : s \in RetryableStatus \cup {404}}
    \cup {Http(200, b) : b \in ReqBodies}

ReqUrl == reddit_search_url("q", "sr", None)

\* Nothing fetched, logged or recorded yet
IoIdle ==
    /\ errors = <<>> /\ net = <<>> /\ log_file = <<>> /\ raw_files = {}
    /\ served = <<>> /\ ret = NoneDoc

\* No fetch_posts_for_query running
FetchIdle ==
    /\ query = "" /\ subreddit = None
    /\ start_ts = 0 /\ end_ts = 0 /\ max_pages = 0
    /\ posts = <<>> /\ after = None /\ pages = 0 /\ children = <<>>
    /\ fpc = "idle" /\ fetches = 0 /\ budget = 0

\* main not running
MainIdle ==
    /\ qi = 0 /\ all_posts = <<>> /\ query_summary = <<>>
    /\ df = <<>> /\ weekly = <<>> /\ summary_csv = <<>> /\ errors_csv = <<>>

\* Pipeline B not running
TrendIdle == series = <<>> /\ half_life = -1

InitReq ==
    /\ pc = "call_request_json"
    /\ IoIdle /\ FetchIdle /\ MainIdle /\ TrendIdle

CallRequestJson ==
    /\ pc = "call_request_json"
    /\ \E responses \in SeqsUpTo(ReqResponses, RETRIES) \ {<<>>} :
         LET res == request_json(ReqUrl, responses, IoNow) IN
         /\ served' = responses
         /\ ret' = res.ret
         /\ SetIo(res.io)
    /\ pc' = "request_json_returned"
    /\ UNCHANGED <<query, subreddit, start_ts, end_ts, max_pages, posts,
                   after, pages, children, fpc, fetches, budget, qi,
                   all_posts, query_summary, df, weekly, summary_csv,
                   errors_csv, series, half_life>>

NextReq == CallRequestJson

SpecReq == InitReq /\ [][NextReq]_vars

(***************************************************************************)
(* Specification SpecFetch: one call of fetch_posts_for_query              *)
(***************************************************************************)
InitFetch ==
    /\ pc = "call_fetch_posts_for_query"
    /\ IoIdle /\ MainIdle /\ TrendIdle
    /\ query = "q"
    /\ subreddit \in {None, "sr1"}
    /\ start_ts \in CreatedTimes
    /\ end_ts \in {t \in CreatedTimes : t >= start_ts}
    /\ max_pages \in 1..MaxPagesBound
    /\ posts = <<>> /\ after = None /\ pages = 0 /\ children = <<>>
    /\ fpc = "loop" /\ fetches = 0
    /\ budget = MaxEndpointEvents

NextFetch == FetchPage \/ FetchCeiling

SpecFetch == InitFetch /\ [][NextFetch]_vars

\* the call is sequential code: an enabled step is taken
SpecFetchFair == SpecFetch /\ WF_vars(NextFetch)

(***************************************************************************)
(* main: configuration                                                     *)
(* The query lists and SUBREDDITS are shortened to one query per list and  *)
(* two scopes; the engagement counters of a post are left out.             *)
(***************************************************************************)
QUERY_BROAD == <<"broad">>

QUERY_BACKLASH == <<"backlash">>

QUERY_SPECIFIC == <<"specific">>

SUBREDDITS == <<"sr1", "sr2">>

\* START_DATE, a whole second
START_DATE == FirstMonday - 1

\* the page ceiling main passes to fetch_posts_for_query (max_pages=20),
\* scaled down to the size of the modelled endpoint
MAIN_MAX_PAGES == 2

Typed(qtype, qs) == [i \in 1..Len(qs) |-> [qtype |-> qtype, q |-> qs[i]]]

all_queries ==
    Typed("broad", QUERY_BROAD) \o Typed("backlash", QUERY_BACKLASH)
    \o Typed("specific", QUERY_SPECIFIC)

scopes == IF SUBREDDITS # <<>> THEN SUBREDDITS ELSE <<None>>

\* the (query, scope) pairs in the order of main's nested loops
Pairs ==
    [n \in 1..(Len(all_queries) * Len(scopes)) |->
        [qtype |-> all_queries[((n - 1) \div Len(scopes)) + 1].qtype,
         q     |-> all_queries[((n - 1) \div Len(scopes)) + 1].q,
         sr    |-> scopes[((n - 1) % Len(scopes)) + 1]]]

(***************************************************************************)
(* main: aggregation                                                       *)
(***************************************************************************)
\* Monday 00:00:00 UTC of the week of t: to_period("W").start_time
WeekStart(t) == t - ((t - FirstMonday) % WeekSeconds)

\* sort_values("created_dt"): the default sort is not stable, so rows with
\* equal keys come out in any order
SortValues(rows) ==
    {[i \in 1..Len(rows) |-> rows[f[i]]] :
        f \in {g \in [1..Len(rows) -> 1..Len(rows)] :
                 /\ \A i, j \in 1..Len(rows) : i # j => g[i] # g[j]
                 /\ \A i \in 1..(Len(rows) - 1) :
                      rows[g[i]].created_dt <= rows[g[i + 1]].created_dt}}

\* faulty variant: nothing is dropped
DropDuplicatesKeepAll(rows) == rows

\* drop_duplicates(subset=["id"]): the first row of each id is kept; missing
\* ids count as equal to each other
DropDuplicates(rows) ==
    LET keep == {i \in 1..Len(rows) : \A j \in 1..(i - 1) : rows[j].id # rows[i].id}
        F[n \in 0..Len(rows)] ==
            IF n = 0 THEN <<>>
            ELSE IF n \in keep THEN Append(F[n - 1], rows[n]) ELSE F[n - 1]
    IN F[Len(rows)]

\* nunique: the number of distinct values, missing ones not counted
NUnique(ids) == Cardinality(ids \ {None})

RECURSIVE SortedSeq(_)
SortedSeq(S) ==
    IF S = {} THEN <<>>
    ELSE LET m == CHOOSE x \in S : \A y \in S : x <= y
         IN <<m>> \o SortedSeq(S \ {m})

weekly_aggregate(d) ==
    IF d = <<>> THEN <<>>
    ELSE
      LET week(i) == WeekStart(d[i].created_dt)
          weeks   == SortedSeq({week(i) : i \in 1..Len(d)})
      IN [k \in 1..Len(weeks) |->
            [week |-> weeks[k],
             mentions |-> NUnique({d[i].id : i \in {j \in 1..Len(d) : week(j) = weeks[k]}})]]

\* flush_errors: [csv, log] afterwards
flush_errors(errs, csv, lg) ==
    IF errs = <<>> THEN [csv |-> csv, log |-> lg]
    ELSE [csv |-> errs,
          log |-> Append(lg, [msg |-> "Wrote errors CSV", status |-> Len(errs)])]

LogLine(msg) == [msg |-> msg, status |-> 0]

(***************************************************************************)
(* main: the steps                                                         *)
(***************************************************************************)
FetchVars == <<query, subreddit, max_pages, posts, after, pages, children,
               fpc, fetches>>

TrendVars == <<series, half_life>>

\* lines 323-341
MainStart ==
    /\ pc = "start"
    /\ log_file' = <<LogLine("Starting")>>
    /\ start_ts' = TimestampOf(START_DATE)
    /\ end_ts' \in {t \in CreatedTimes : t >= TimestampOf(START_DATE)}
    /\ all_posts' = <<>>
    /\ query_summary' = <<>>
    /\ qi' = 1
    /\ pc' = "queries"
    /\ UNCHANGED <<errors, net, raw_files, served, ret, budget, df, weekly,
                   summary_csv, errors_csv>>
    /\ UNCHANGED FetchVars
    /\ UNCHANGED TrendVars

\* lines 346-350: the next pair's call of fetch_posts_for_query
StartQuery ==
    /\ pc = "queries"
    /\ fpc = "idle"
    /\ qi <= Len(Pairs)
    /\ log_file' = Append(log_file, LogLine("Running query"))
    /\ query' = Pairs[qi].q
    /\ subreddit' = Pairs[qi].sr
    /\ max_pages' = MAIN_MAX_PAGES
    /\ posts' = <<>>
    /\ after' = None
    /\ pages' = 0
    /\ children' = <<>>
    /\ fetches' = 0
    /\ fpc' = "loop"
    /\ UNCHANGED <<pc, errors, net, raw_files, served, ret, start_ts, end_ts,
                   budget, qi, all_posts, query_summary, df, weekly,
                   summary_csv, errors_csv>>
    /\ UNCHANGED TrendVars

\* lines 351-361
CollectQuery ==
    /\ pc = "queries"
    /\ fpc = "return"
    /\ log_file' = Append(log_file, [msg |-> "collected", status |-> Len(posts)])
    /\ all_posts' = all_posts \o posts
    /\ query_summary' =
           Append(query_summary,
                  [query_type |-> Pairs[qi].qtype, query |-> Pairs[qi].q,
                   subreddit_scope |-> IF Pairs[qi].sr = None THEN "ALL" ELSE Pairs[qi].sr,
                   posts_collected |-> Len(posts)])
    /\ qi' = qi + 1
    /\ fpc' = "idle"
    /\ UNCHANGED <<pc, errors, net, raw_files, served, ret, start_ts, end_ts,
                   query, subreddit, max_pages, posts, after, pages, children,
                   fetches, budget, df, weekly, summary_csv, errors_csv>>
    /\ UNCHANGED TrendVars

\* the exception raised in fetch_posts_for_query is caught nowhere
Uncaught ==
    /\ pc = "queries"
    /\ fpc = "raised"
    /\ pc' = "crashed"
    /\ UNCHANGED <<errors, net, log_file, raw_files, served, ret, start_ts,
                   end_ts, budget, qi, all_posts, query_summary, df, weekly,
                   summary_csv, errors_csv>>
    /\ UNCHANGED FetchVars
    /\ UNCHANGED TrendVars

\* lines 363-366
ExportSummary ==
    /\ pc = "queries"
    /\ fpc = "idle"
    /\ qi > Len(Pairs)
    /\ summary_csv' = query_summary
    /\ log_file' = Append(log_file, LogLine("Saved summary"))
    /\ pc' = "aggregate"
    /\ UNCHANGED <<errors, net, raw_files, served, ret, start_ts, end_ts,
                   budget, qi, all_posts, query_summary, df, weekly,
                   errors_csv>>
    /\ UNCHANGED FetchVars
    /\ UNCHANGED TrendVars

\* lines 368-385
Aggregate ==
    /\ pc = "aggregate"
    /\ IF all_posts = <<>> THEN
           LET fl == flush_errors(errors, errors_csv,
                                  Append(log_file, LogLine("No posts collected")))
           IN
           /\ errors_csv' = fl.csv
           /\ log_file' = fl.log
           /\ df' = <<>>
           /\ weekly' = <<>>
           /\ pc' = "done"
       ELSE
           \E sorted \in SortValues(all_posts) :
               /\ df' = DropDuplicates(sorted)
               /\ weekly' = weekly_aggregate(df')
               /\ log_file' = log_file \o <<[msg |-> "Saved posts", status |-> Len(df')],
                                             [msg |-> "Saved weekly", status |-> Len(weekly')]>>
               /\ errors_csv' = errors_csv
               /\ pc' = "plots"
    /\ UNCHANGED <<errors, net, raw_files, served, ret, start_ts, end_ts,
                   budget, qi, all_posts, query_summary, summary_csv>>
    /\ UNCHANGED FetchVars
    /\ UNCHANGED TrendVars

\* lines 388-394: either plot call may raise
Plots ==
    /\ pc = "plots"
    /\ \E outcome \in {"ok", "plot_weekly_raises", "plot_event_window_raises"} :
         /\ log_file' =
               IF outcome = "ok"
               THEN log_file \o <<LogLine("Saved weekly plots"), LogLine("Saved event plot")>>
               ELSE IF outcome = "plot_event_window_raises"
               THEN Append(log_file, LogLine("Saved weekly plots"))
               ELSE log_file
         /\ errors' =
               IF outcome = "ok" THEN errors
               ELSE Append(errors, ErrorRow("plot_failed", 0, NoFile))
    /\ pc' = "finish"
    /\ UNCHANGED <<net, raw_files, served, ret, start_ts, end_ts, budget, qi,
                   all_posts, query_summary, df, weekly, summary_csv,
                   errors_csv>>
    /\ UNCHANGED FetchVars
    /\ UNCHANGED TrendVars

\* lines 396-402
Finish ==
    /\ pc = "finish"
    /\ LET fl == flush_errors(errors, errors_csv,
                              Append(log_file, LogLine("Backlash-query unique posts")))
       IN
       /\ errors_csv' = fl.csv
       /\ log_file' = Append(fl.log, LogLine("Done."))
    /\ pc' = "done"
    /\ UNCHANGED <<errors, net, raw_files, served, ret, start_ts, end_ts,
                   budget, qi, all_posts, query_summary, df, weekly,
                   summary_csv>>
    /\ UNCHANGED FetchVars
    /\ UNCHANGED TrendVars

(***************************************************************************)
(* Specification Spec: one run of main                                     *)
(***************************************************************************)
Init ==
    /\ pc = "start"
    /\ errors = <<>> /\ net = <<>> /\ raw_files = {}
    /\ log_file = <<LogLine("Done.")>>
    /\ served = <<>> /\ ret = NoneDoc
    /\ query = "" /\ subreddit = None
    /\ start_ts = 0 /\ end_ts = 0 /\ max_pages = 0
    /\ posts = <<>> /\ after = None /\ pages = 0 /\ children = <<>>
    /\ fpc = "idle" /\ fetches = 0
    /\ budget = MaxEndpointEvents
    /\ MainIdle /\ TrendIdle

Next ==
    \/ MainStart
    \/ StartQuery
    \/ FetchPage
    \/ FetchCeiling
    \/ CollectQuery
    \/ Uncaught
    \/ ExportSummary
    \/ Aggregate
    \/ Plots
    \/ Finish

Spec == Init /\ [][Next]_vars

(***************************************************************************)
(* Specification SpecAgg: main from "De-duplicate by post id" on, for any  *)
(* collected records                                                       *)
(***************************************************************************)
AggIDs == {None, "X", "Y"}

AggRecords ==
    {PostRecord(Post(id, t), "broad", sr) :
        id \in AggIDs, t \in CreatedTimes, sr \in {"sr1", "sr2"}}

InitAgg ==
    /\ pc = "aggregate"
    /\ IoIdle /\ FetchIdle /\ TrendIdle
    /\ qi = Len(Pairs) + 1
    /\ all_posts \in SeqsUpTo(AggRecords, MaxPosts)
    /\ query_summary = <<>> /\ summary_csv = <<>>
    /\ df = <<>> /\ weekly = <<>> /\ errors_csv = <<>>

NextAgg == Aggregate \/ Plots \/ Finish

SpecAgg == InitAgg /\ [][NextAgg]_vars

(***************************************************************************)
(* Pipeline B: compute_half_life                                           *)
(* A series is a sequence of rows [date, value]: date in days, ascending;  *)
(* value the smoothed interest index.  A half-life is counted in           *)
(* hundredths of a week, as round(..., 2) leaves it.                       *)
(***************************************************************************)
\* "return None"
Absent == -1

\* df[col].idxmax(): the first row holding the largest value
IdxMax(rows) ==
    CHOOSE i \in 1..Len(rows) :
        /\ \A j \in 1..Len(rows) : rows[j].value <= rows[i].value
        /\ \A j \in 1..(i - 1) : rows[j].value < rows[i].value

\* round(days / 7, 2), in hundredths
WeeksRounded(days) == (days * 200 + 7) \div 14

\* df[df["date"] >= peak_date]
AfterPeak(rows, peak_date) ==
    {i \in 1..Len(rows) : rows[i].date >= peak_date}

compute_half_life(rows) ==
    LET peak_idx  == IdxMax(rows)
        peak_date == rows[peak_idx].date
        peak_val  == rows[peak_idx].value
        \* value <= peak_val / 2
        half_row  == {i \in AfterPeak(rows, peak_date) : 2 * rows[i].value <= peak_val}
    IN IF half_row = {} THEN Absent
       ELSE LET first == CHOOSE i \in half_row : \A j \in half_row : i <= j
            IN WeeksRounded(rows[first].date - peak_date)

ValueLevels == {0, 50, 75, 100}

\* days between two points: weekly or monthly data
StepDays == {7, 31}

SeriesInputs ==
    {[i \in 1..Len(vs) |-> [date |-> (i - 1) * step, value |-> vs[i]]] :
        vs \in SeqsUpTo(ValueLevels, MaxSeriesLen) \ {<<>>}, step \in StepDays}

InitHL ==
    /\ pc = "call_compute_half_life"
    /\ IoIdle /\ FetchIdle /\ MainIdle
    /\ series \in SeriesInputs
    /\ half_life = Absent

ComputeHalfLife ==
    /\ pc = "call_compute_half_life"
    /\ half_life' = compute_half_life(series)
    /\ pc' = "compute_half_life_returned"
    /\ UNCHANGED <<errors, net, log_file, raw_files, served, ret, start_ts,
                   end_ts, budget, qi, all_posts, query_summary, df, weekly,
                   summary_csv, errors_csv, series>>
    /\ UNCHANGED FetchVars

NextHL == ComputeHalfLife

SpecHL == InitHL /\ [][NextHL]_vars

(***************************************************************************)
(* Reading the traces                                                      *)
(***************************************************************************)
GetPositions == {i \in 1..Len(net) : net[i].op = "GET"}

NumGets == Cardinality(GetPositions)

\* position in net of the k-th request
GetIdx(k) ==
    CHOOSE i \in GetPositions :
        Cardinality({j \in GetPositions : j <= i}) = k

\* durations of the sleeps between request k and request k + 1
SleepsBetween(k) ==
    LET between == SubSeq(net, GetIdx(k) + 1, GetIdx(k + 1) - 1)
    IN [i \in 1..Len(between) |-> between[i].secs]

StageCount(stage) ==
    Cardinality({i \in 1..Len(errors) : errors[i].stage = stage})

ReqReturned == pc = "request_json_returned"

ClaimRetryableSet == {429, 500, 502, 503, 504}

RetryableAnswer(r) == r.kind = "http" /\ r.status \in ClaimRetryableSet

NonRetryableStatusAnswer(r) ==
    r.kind = "http" /\ r.status # 200 /\ r.status \notin ClaimRetryableSet

UnparsableAnswer(r) == r.kind = "http" /\ r.status = 200 /\ ~r.body.valid

(***************************************************************************)
(* C1: when every response has a retryable status, request_json issues     *)
(* exactly RETRIES requests, returns None, and sleeps BACKOFF_BASE^(k-1)   *)
(* seconds between attempt k and attempt k+1, for k in 1..RETRIES-1.       *)
(***************************************************************************)
C1_AllRetryable ==
    \A i \in 1..Len(served) : RetryableAnswer(served[i])

C1_RetryableBackoff ==
    (ReqReturned /\ C1_AllRetryable) =>
        /\ NumGets = RETRIES
        /\ ret = NoneDoc
        /\ \A k \in 1..(RETRIES - 1) :
             SleepsBetween(k) = <<Pow(BACKOFF_BASE, k - 1)>>

C1_Witness ==
    /\ ReqReturned
    /\ C1_AllRetryable
    /\ Len(served) = RETRIES
    /\ {served[i].status : i \in 1..RETRIES} = ClaimRetryableSet
    /\ SleepsBetween(4) = <<8>>

(***************************************************************************)
(* C2: a terminal response is never retried.  The attempt that receives a  *)
(* non-200 status outside the retryable set, or a 200 whose body does not  *)
(* parse, is the last one: None is returned, the raw body is saved, one    *)
(* http_non_200 (resp. json_parse_failed) diagnostic is recorded, and no   *)
(* sleep follows; as the first response it leaves exactly one attempt.     *)
(***************************************************************************)
C2_TerminalHandled(r, stage, prefix) ==
    /\ ret = NoneDoc
    /\ safe_filename(prefix, r.body) \in raw_files
    /\ StageCount(stage) = 1
    /\ errors[Len(errors)] = ErrorRow(stage, IF stage = "http_non_200" THEN r.status ELSE 0,
                                      safe_filename(prefix, r.body))
    /\ net[Len(net)].op = "GET"

C2_TerminalNotRetried ==
    ReqReturned =>
        \A k \in 1..NumGets :
            LET r == ResponseAt(served, k) IN
            /\ NonRetryableStatusAnswer(r) =>
                   k = NumGets /\ C2_TerminalHandled(r, "http_non_200", "reddit_raw_http")
            /\ UnparsableAnswer(r) =>
                   k = NumGets /\ C2_TerminalHandled(r, "json_parse_failed", "reddit_raw_parsefail")

C2_Witness ==
    /\ ReqReturned
    /\ Len(served) > 1
    /\ NonRetryableStatusAnswer(served[1])
    /\ NumGets = 1
    /\ StageCount("http_non_200") = 1

(***************************************************************************)
(* C3: request_json makes at most RETRIES requests; when all RETRIES       *)
(* attempts end in a retryable status or a transport exception it records  *)
(* one request_failed_all_retries diagnostic after the RETRIES per-attempt *)
(* diagnostics and returns None; in no other case is it recorded.          *)
(***************************************************************************)
C3_Exhausted ==
    \A k \in 1..RETRIES :
        LET r == ResponseAt(served, k) IN r.kind = "exception" \/ RetryableAnswer(r)

C3_RetriesExhausted ==
    ReqReturned =>
        /\ NumGets <= RETRIES
        /\ StageCount("request_failed_all_retries") = (IF C3_Exhausted THEN 1 ELSE 0)
        /\ C3_Exhausted =>
             /\ NumGets = RETRIES
             /\ ret = NoneDoc
             /\ Len(errors) = RETRIES + 1
             /\ errors[RETRIES + 1].stage = "request_failed_all_retries"
             /\ \A k \in 1..RETRIES :
                  errors[k].stage =
                      (IF ResponseAt(served, k).kind = "exception"
                       THEN "request_exception" ELSE "http_retryable")

C3_Witness ==
    /\ ReqReturned
    /\ C3_Exhausted
    /\ \E j, k \in 1..Len(served) :
         served[j].kind = "exception" /\ RetryableAnswer(served[k])
    /\ StageCount("request_failed_all_retries") = 1

(***************************************************************************)
(* C4: when the first page has no items, fetch_posts_for_query returns     *)
(* zero records after exactly one fetch, whatever cursor the page carries, *)
(* and without a throttle sleep: the response is the last thing on the     *)
(* wire, and when it is the endpoint's first answer it is the only one.    *)
(***************************************************************************)
C4_FirstPageEmpty == pages = 1 /\ children = <<>>

C4_EmptyFirstPage ==
    C4_FirstPageEmpty =>
        /\ fpc = "return"
        /\ posts = <<>>
        /\ fetches = 1
        /\ net[Len(net)].op = "GET"
        /\ Len(served) = 1 => Len(net) = 1

C4_Witness ==
    /\ C4_FirstPageEmpty
    /\ after = "t3_next"
    /\ max_pages > 1
    /\ Len(served) = 1
    /\ fpc = "return"

(***************************************************************************)
(* C5: fetch_posts_for_query fetches at most max_pages pages and never     *)
(* hangs, whatever cursors come back.  It has stopped only if the fetch    *)
(* failed or gave no structured payload, the page was empty, no cursor     *)
(* came back, or the ceiling is reached; and it goes on paging only if     *)
(* none of the first three holds, in-window items or not.                  *)
(***************************************************************************)
C5_NoPayload == ret.shape # "listing"

C5_PageEmpty == children = <<>>

C5_NoCursor == after \in {None, ""}

C5_CeilingReached == pages >= max_pages

C5_Terminates == <>(fpc \in {"return", "raised"})

C6_WindowFilter ==
    \A i \in 1..Len(posts) :
        posts[i].created_utc >= start_ts /\ posts[i].created_utc <= end_ts

\* the same for the truncated time the record is stored and sorted under
C6_WindowFilterWholeSeconds ==
    \A i \in 1..Len(posts) :
        /\ TimestampOf(posts[i].created_dt) >= start_ts
        /\ TimestampOf(posts[i].created_dt) <= end_ts

(***************************************************************************)
(* C7: whatever was collected, duplicates included, the aggregation in     *)
(* main leaves exactly one record per distinct identifier, each of them a  *)
(* collected record, in ascending order of creation time; and the weekly   *)
(* bucket of an identifier's week counts each identifier of that week      *)
(* once.                                                                   *)
(***************************************************************************)
Aggregated == pc \in {"plots", "finish"} \/ (pc = "done" /\ all_posts # <<>>)

IdsOf(rows) == {rows[i].id : i \in 1..Len(rows)}

BucketsOf(w) == {k \in 1..Len(weekly) : weekly[k].week = w}

C7_OneRecordPerId ==
    Aggregated =>
        /\ IdsOf(df) = IdsOf(all_posts)
        /\ \A i, j \in 1..Len(df) : i # j => df[i].id # df[j].id
        /\ \A i \in 1..Len(df) : \E j \in 1..Len(all_posts) : df[i] = all_posts[j]
        /\ \A i \in 1..(Len(df) - 1) : df[i].created_dt <= df[i + 1].created_dt
        /\ \A i \in 1..Len(df) :
             df[i].id # None =>
               LET w == df[i].created_dt - ((df[i].created_dt - FirstMonday) % WeekSeconds)
               IN /\ Cardinality(BucketsOf(w)) = 1
                  /\ \A k \in BucketsOf(w) :
                       weekly[k].mentions =
                         Cardinality({j \in 1..Len(df) :
                            /\ df[j].id # None
                            /\ df[j].created_dt >= w
                            /\ df[j].created_dt < w + WeekSeconds})

\* X comes back from two scopes, after a later post Y; X's week holds X only
C7_Witness ==
    /\ Aggregated
    /\ Len(all_posts) = 3
    /\ all_posts[1].id = "Y" /\ all_posts[2].id = "X" /\ all_posts[3].id = "X"
    /\ all_posts[2].scope_subreddit # all_posts[3].scope_subreddit
    /\ all_posts[2].created_dt = all_posts[3].created_dt
    /\ all_posts[1].created_dt > all_posts[2].created_dt
    /\ Len(df) = 2 /\ df[1].id = "X" /\ df[2].id = "Y"
    /\ weekly[1].mentions = 1

(***************************************************************************)
(* C8: every weekly bucket's count is the number of distinct identifiers   *)
(* created within the bucket's week, every week holding a record has a     *)
(* bucket, and no bucket has count 0 - records without identifier          *)
(* included.                                                               *)
(***************************************************************************)
InWeek(row, w) == row.created_dt >= w /\ row.created_dt < w + WeekSeconds

C8_WeeklyCounts ==
    Aggregated =>
        /\ \A k \in 1..Len(weekly) :
             /\ weekly[k].mentions =
                  Cardinality({df[i].id : i \in {j \in 1..Len(df) :
                                  df[j].id # None /\ InWeek(df[j], weekly[k].week)}})
             /\ weekly[k].mentions # 0
        /\ \A i \in 1..Len(df) : \E k \in 1..Len(weekly) : InWeek(df[i], weekly[k].week)

\* what does hold: the count is right for the records that have an id
C8_CountsOfIdentified ==
    Aggregated =>
        /\ \A k \in 1..Len(weekly) :
             /\ weekly[k].mentions =
                  Cardinality({df[i].id : i \in {j \in 1..Len(df) :
                                  df[j].id # None /\ InWeek(df[j], weekly[k].week)}})
             /\ \E i \in 1..Len(df) : InWeek(df[i], weekly[k].week)
        /\ \A i \in 1..Len(df) : \E k \in 1..Len(weekly) : InWeek(df[i], weekly[k].week)

(***************************************************************************)
(* C9: compute_half_life returns the weeks from the first row of the       *)
(* largest value to the first later row whose value is at most half of it, *)
(* and is absent when there is no such later row (an all-zero series and a *)
(* one-point series included).                                             *)
(***************************************************************************)
HLReturned == pc = "compute_half_life_returned"

C9_PeakIdx ==
    CHOOSE i \in 1..Len(series) :
        /\ \A j \in 1..Len(series) : series[j].value <= series[i].value
        /\ \A j \in 1..(i - 1) : series[j].value < series[i].value

C9_LaterHalved ==
    {i \in (C9_PeakIdx + 1)..Len(series) : 2 * series[i].value <= series[C9_PeakIdx].value}

C9_HalfLife ==
    HLReturned =>
        IF C9_LaterHalved = {} THEN half_life = Absent
        ELSE LET first == CHOOSE i \in C9_LaterHalved : \A j \in C9_LaterHalved : i <= j
                 days  == series[first].date - series[C9_PeakIdx].date
             IN /\ half_life * 7 <= days * 100 + 3
                /\ half_life * 7 >= days * 100 - 3

\* what does hold: the same for a series with a positive peak
C9_HalfLifePositivePeak ==
    (HLReturned /\ series[C9_PeakIdx].value > 0) => C9_HalfLife

\* peak 100 at week 0, monotonic decay to 50 at week 4: 4.00 weeks
C9_Example ==
    /\ HLReturned
    /\ [i \in 1..Len(series) |-> series[i].value] = <<100, 75, 75, 75, 50>>
    /\ series[2].date = 7
    /\ half_life = 400

(***************************************************************************)
(* C10: whatever the fetches return, main runs every (query, scope) pair   *)
(* in order, writes one summary row per pair, reaches its end and flushes  *)
(* the diagnostics.                                                        *)
(***************************************************************************)
C10_RunCompletes ==
    pc \in {"done", "crashed"} =>
        /\ pc = "done"
        /\ Len(summary_csv) = Len(Pairs)
        /\ \A n \in 1..Len(Pairs) :
             /\ summary_csv[n].query = Pairs[n].q
             /\ summary_csv[n].subreddit_scope = Pairs[n].sr
        /\ errors_csv = errors

\* what does hold: a run whose documents all have an object under "data"
C10_CompletesUnlessMalformed ==
    (pc \in {"done", "crashed"} /\ ret.shape # "data_not_obj") =>
        /\ pc = "done"
        /\ Len(summary_csv) = Len(Pairs)
        /\ errors_csv = errors

(***************************************************************************)
(* Reading the traces of single attempts                                   *)
(***************************************************************************)
\* the I/O state with nothing fetched, logged or recorded
EmptyIo == [errors |-> <<>>, net |-> <<>>, log |-> <<>>, files |-> {}]

\* what attempts k, k+1, ... of the returned call appended
AttemptsFrom(k) == Attempt(k, ReqUrl, served, EmptyIo).io

\* attempt k ended in continue or in the except branch, not in a return
AttemptContinues(k) ==
    k < NumGets \/ StageCount("request_failed_all_retries") = 1

\* what was appended after attempt k
AfterAttempt(k) == IF AttemptContinues(k) THEN AttemptsFrom(k + 1) ELSE EmptyIo

\* number of lines attempt k appended to LOG_FILE
LogLinesOfAttempt(k) == Len(AttemptsFrom(k).log) - Len(AfterAttempt(k).log)

\* number of entries attempt k appended to _errors
DiagnosticsOfAttempt(k) ==
    Len(AttemptsFrom(k).errors) - Len(AfterAttempt(k).errors)

\* a 200 response whose body parses
SuccessAnswer(r) == r.kind = "http" /\ r.status = 200 /\ r.body.valid

IsPrefix(s, t) == Len(s) <= Len(t) /\ SubSeq(t, 1, Len(s)) = s

(***************************************************************************)
(* C11: in request_json every attempt appends a line to the persistent     *)
(* log and every failed attempt appends an entry to the diagnostics list,  *)
(* whatever the outcome of the attempt: success, retryable status,         *)
(* terminal status, parse failure, transport exception.                    *)
(***************************************************************************)
C11_AttemptsLeaveTraces ==
    ReqReturned =>
        \A k \in 1..NumGets :
            /\ LogLinesOfAttempt(k) >= 1
            /\ ~SuccessAnswer(ResponseAt(served, k)) =>
                   DiagnosticsOfAttempt(k) >= 1

\* the per-attempt traces are those of the call that returned
C11_TraceOfCall ==
    ReqReturned =>
        /\ AttemptsFrom(1).log = log_file
        /\ AttemptsFrom(1).errors = errors

\* what does hold: every attempt that receives a response is logged, and
\* every failed attempt, transport exceptions included, is recorded
C11_ResponsesLoggedFailuresRecorded ==
    ReqReturned =>
        \A k \in 1..NumGets :
            LET r == ResponseAt(served, k) IN
            /\ LogLinesOfAttempt(k) =
                   (IF r.kind = "exception" THEN 0
                    ELSE IF RetryableAnswer(r) THEN 2 ELSE 1)
            /\ DiagnosticsOfAttempt(k) = (IF SuccessAnswer(r) THEN 0 ELSE 1)

\* the diagnostics list only grows during a run: no step removes or
\* changes an entry, up to and including the flush
C11_DiagnosticsOnlyGrow == [][IsPrefix(errors, errors')]_vars

\* a call whose first attempt raises and whose second succeeds
C11_Example ==
    /\ ReqReturned
    /\ NumGets = 2
    /\ served[1].kind = "exception"
    /\ SuccessAnswer(ResponseAt(served, 2))
    /\ Len(log_file) = 1
    /\ Len(errors) = 1

====
